---- MODULE Spec2Model ----
(***************************************************************************)
(* Model of src/src/main.rs: struct GameOfLife (width, height, cells)      *)
(* with new, update, compute_next_states, count_neighbors, draw and       *)
(* starting_position, and the event handler of main that drives it.       *)
(*                                                                         *)
(* cells is a function row -> (col -> BOOLEAN) with 0-based indices, as   *)
(* Vec<Vec<bool>> is indexed in the source.                               *)
(***************************************************************************)
EXTENDS Integers, Sequences, FiniteSets, TLC

\* ------------------------------------------------------------------ bounds
\* dimensions of the small grids built by new(width, height)
MaxDim == 4
\* smallest dimension of the large grids, and how many sizes above it
BigDim == 20
BigExtra == 1
\* number of calls made on a grid built by new
MaxSteps == 6
\* dimensions of the grids with arbitrary contents
MaxGridDim == 3
\* number of update() calls made on a grid with arbitrary contents
MaxGridSteps == 1
\* number of update() calls made on a grid holding one glider
MaxGliderSteps == 4
\* dimensions of the small grids holding one known pattern
MaxPatDim == 5
\* number of cells of the grids that are drawn; bytes the buffer has beyond
\* width*height*4; number of calls made on them
MaxDrawArea == 6
MaxDrawExtra == 1
MaxDrawSteps == 2
\* dimensions, zero included, passed to new; number of calls made after it
MaxNewDim == 3
MaxNewSteps == 3
\* main's WIDTH and HEIGHT, scaled down; number of calls the handler makes
MainWidth == 4
MainHeight == 3
MaxMainCalls == 3
\* number of cells of the grids of any shape and contents, and number of
\* update() calls made on them
MaxArea == 9
MaxAreaSteps == 1

\* ------------------------------------------------------------------ state
VARIABLES
    width,      \* GameOfLife.width
    height,     \* GameOfLife.height
    cells,      \* GameOfLife.cells
    args,       \* <<width, height>> as passed to new (history)
    ops,        \* the calls made so far, oldest first (history)
    hist,       \* hist[i] is cells as it was before call ops[i] (history)
    limit,      \* number of calls this run makes (set by the initial state)
    screen,     \* the byte buffer draw writes to (pixels.frame_mut() in main)
    paused,     \* main's `paused`
    control_flow,   \* main's *control_flow: "Poll" or "Exit"
    ev,         \* the event the handler of main ran last (history)
    panicked    \* an index was out of range: the thread has panicked

vars == <<width, height, cells, args, ops, hist, limit,
          screen, paused, control_flow, ev, panicked>>

\* ------------------------------------------------------- integer casts
\* `x as usize` of an isize x: two's-complement reinterpretation.  The
\* target's word is 64 bits; the model keeps 30 so that the values stay in
\* the model checker's integers.  Every dimension of the model is far below
\* either modulus.
UsizeModulus == 2 ^ 30

AsUsize(x) == x % UsizeModulus

Range(seq) == {seq[i] : i \in 1..Len(seq)}

\* ------------------------------------------------------------------- new
\* variant: the two lengths exchanged
new_cells_swapped(w, h) ==
    [row \in 0..(w - 1) |-> [col \in 0..(h - 1) |-> FALSE]]

new_cells(w, h) == [row \in 0..(h - 1) |-> [col \in 0..(w - 1) |-> FALSE]]

\* ------------------------------------------------------- count_neighbors
\* variant: the row stops at the edge instead of wrapping
row_neighbor_clamped(row, dr) ==
    IF row + dr < 0 THEN 0
    ELSE IF row + dr >= height THEN height - 1 ELSE row + dr

\* variant: the sum without the `% height`
row_neighbor_unwrapped(row, dr) == AsUsize(row + dr + height)

\* variant: the wrap without the `+ height` bias
row_neighbor_unbiased(row, dr) == AsUsize(row + dr) % height

row_neighbor(row, dr) == AsUsize(row + dr + height) % height

\* variant: the wrap without the `+ width` bias
col_neighbor_unbiased(col, dc) == AsUsize(col + dc) % width

col_neighbor(col, dc) == AsUsize(col + dc + width) % width

\* one pass of the loop body for (dr, dc): what it adds to count
hit(cs, row, col, dr, dc) ==
    IF cs[row_neighbor(row, dr)][col_neighbor(col, dc)] THEN 1 ELSE 0

\* variant: the loops without the `continue` for (0, 0)
count_neighbors_with_self(cs, row, col) ==
      hit(cs, row, col, -1, -1) + hit(cs, row, col, -1, 0) + hit(cs, row, col, -1, 1)
    + hit(cs, row, col, 0, -1) + hit(cs, row, col, 0, 0) + hit(cs, row, col, 0, 1)
    + hit(cs, row, col, 1, -1) + hit(cs, row, col, 1, 0) + hit(cs, row, col, 1, 1)

\* the nested loops over dr, dc in -1..=1, unrolled in their order; the
\* pass for (0, 0) is the one `continue` skips
count_neighbors(cs, row, col) ==
      hit(cs, row, col, -1, -1) + hit(cs, row, col, -1, 0) + hit(cs, row, col, -1, 1)
    + hit(cs, row, col, 0, -1) + hit(cs, row, col, 0, 1)
    + hit(cs, row, col, 1, -1) + hit(cs, row, col, 1, 0) + hit(cs, row, col, 1, 1)

\* --------------------------------------------------- compute_next_states
\* variant: birth with at most 3 live neighbours instead of exactly 3
compute_next_states_birth_upto3(cs, row, col) ==
    LET alive_neighbors == count_neighbors(cs, row, col)
    IN  CASE cs[row][col] /\ alive_neighbors = 2 -> TRUE
          [] cs[row][col] /\ alive_neighbors = 3 -> TRUE
          [] ~cs[row][col] /\ alive_neighbors <= 3 -> TRUE
          [] OTHER -> FALSE

compute_next_states(cs, row, col) ==
    LET alive_neighbors == count_neighbors(cs, row, col)
    IN  CASE cs[row][col] /\ alive_neighbors = 2 -> TRUE
          [] cs[row][col] /\ alive_neighbors = 3 -> TRUE
          [] ~cs[row][col] /\ alive_neighbors = 3 -> TRUE
          [] OTHER -> FALSE

\* ---------------------------------------------------------------- update
\* variant: each cell is written into cs as soon as it is computed, so that
\* later cells read it (row-major order)
RECURSIVE update_in_place_from(_, _)
update_in_place_from(cs, i) ==
    IF i >= width * height THEN cs
    ELSE LET row == i \div width
             col == i % width
         IN  update_in_place_from(
                 [cs EXCEPT ![row][col] = compute_next_states(cs, row, col)],
                 i + 1)

update_in_place(cs) == update_in_place_from(cs, 0)

\* new_cells is built completely from cs, then replaces it
update(cs) ==
    [row \in 0..(height - 1) |->
        [col \in 0..(width - 1) |-> compute_next_states(cs, row, col)]]

\* ----------------------------------------------------- starting_position
\* variant: the last offset is missing
offsets_four == << <<-1, -1>>, <<-1, 0>>, <<0, -2>>, <<0, -1>> >>

\* variant: the offsets of a glider
offsets_glider == << <<-1, 0>>, <<0, 1>>, <<1, -1>>, <<1, 0>>, <<1, 1>> >>

offsets == << <<-1, -1>>, <<-1, 0>>, <<0, -2>>, <<0, -1>>, <<1, -1>> >>

middle_row == height \div 2

middle_col == width \div 2

seed_row(dr) == AsUsize(middle_row + dr)

\* variant: the column wraps like a neighbour's does
seed_col_wrapped(dc) == AsUsize(middle_col + dc + width) % width

seed_col(dc) == AsUsize(middle_col + dc)

RECURSIVE seed_from(_, _)
seed_from(cs, k) ==
    IF k > Len(offsets) THEN cs
    ELSE LET row == seed_row(offsets[k][1])
             col == seed_col(offsets[k][2])
         IN  IF row < height /\ col < width
             THEN seed_from([cs EXCEPT ![row][col] = TRUE], k + 1)
             ELSE seed_from(cs, k + 1)

\* variant: the pattern is placed on a cleared grid
starting_position_cleared(cs) == seed_from(new_cells(width, height), 1)

starting_position(cs) == seed_from(cs, 1)

\* ------------------------------------------------------ index checks
\* the row and column indices count_neighbors computes over all of update
neighbor_rows == {row_neighbor(row, dr) : row \in 0..(height - 1), dr \in -1..1}

neighbor_cols == {col_neighbor(col, dc) : col \in 0..(width - 1), dc \in -1..1}

\* update() indexes cs[row_neighbor][col_neighbor] (and cs[row][col]) for
\* every cell; an index outside the vector panics.  With no cell there is
\* no call of count_neighbors at all.
update_panics(cs) ==
    /\ width > 0 /\ height > 0
    /\ \E rn \in neighbor_rows :
          \/ rn \notin DOMAIN cs
          \/ \E cn \in neighbor_cols : cn \notin DOMAIN cs[rn]

\* ------------------------------------------------------------------ draw
\* variant: the two colours exchanged
color_swapped(alive) == IF alive THEN <<255, 255, 255>> ELSE <<0, 0, 0>>

color(alive) == IF alive THEN <<0, 0, 0>> ELSE <<255, 255, 255>>

\* the passes of the two loops from cell number i on, in row-major order
RECURSIVE draw_from(_, _, _)
draw_from(cs, scr, i) ==
    IF i >= width * height THEN scr
    ELSE LET row == i \div width
             col == i % width
             index == (row * width + col) * 4
             c == color(cs[row][col])
         IN  draw_from(cs,
                       [scr EXCEPT ![index] = c[1],
                                   ![index + 1] = c[2],
                                   ![index + 2] = c[3],
                                   ![index + 3] = 255],
                       i + 1)

draw(cs, scr) == draw_from(cs, scr, 0)

\* draw() writes screen[0 .. width*height*4 - 1]; a shorter slice panics
draw_panics(scr) == \E i \in 0..(width * height * 4 - 1) : i \notin DOMAIN scr

\* a buffer of n bytes, all equal to b
Buffer(n, b) == [i \in 0..(n - 1) |-> b]

\* new has no check of its arguments and no error to return: it builds
\* Self for every width and height
new_fails(w, h) == FALSE

New(w, h) ==
    /\ width = w
    /\ height = h
    /\ cells = new_cells(w, h)
    /\ args = <<w, h>>

\* ----------------------------------------------------------- operations
\* what main's side is while the methods are called directly
NoEvent ==
    [kind |-> "none", escape |-> FALSE, p |-> FALSE, space |-> FALSE,
     r |-> FALSE, resized |-> FALSE, ok |-> TRUE, click |-> << >>]

NoMain ==
    /\ paused = FALSE
    /\ control_flow = "Poll"
    /\ ev = NoEvent
    /\ panicked = FALSE

Update ==
    /\ Len(ops) < limit
    /\ ~panicked
    /\ panicked' = update_panics(cells)
    /\ cells' = IF update_panics(cells) THEN cells ELSE update(cells)
    /\ ops' = Append(ops, "update")
    /\ hist' = Append(hist, cells)
    /\ UNCHANGED <<width, height, args, limit, screen, paused, control_flow, ev>>

StartingPosition ==
    /\ Len(ops) < limit
    /\ ~panicked
    /\ cells' = starting_position(cells)
    /\ ops' = Append(ops, "starting_position")
    /\ hist' = Append(hist, cells)
    /\ UNCHANGED <<width, height, args, limit, screen, paused, control_flow, ev,
                   panicked>>

Draw ==
    /\ Len(ops) < limit
    /\ ~panicked
    /\ panicked' = draw_panics(screen)
    /\ screen' = draw(cells, screen)
    /\ ops' = Append(ops, "draw")
    /\ hist' = Append(hist, cells)
    /\ UNCHANGED <<width, height, cells, args, limit, paused, control_flow, ev>>

Next == Update \/ StartingPosition

\* ------------------------------------------- a grid built by new(w, h)
Dims == (1..MaxDim) \cup (BigDim..(BigDim + BigExtra))

Init ==
    /\ \E w \in Dims, h \in Dims : New(w, h)
    /\ ops = << >>
    /\ hist = << >>
    /\ limit = MaxSteps
    /\ screen = << >>
    /\ NoMain

Spec == Init /\ [][Next]_vars

\* --------------------------- a grid of any contents, then the update()s
GridInit ==
    /\ \E w \in 1..MaxGridDim, h \in 1..MaxGridDim :
          /\ width = w
          /\ height = h
          /\ args = <<w, h>>
          /\ cells \in [0..(h - 1) -> [0..(w - 1) -> BOOLEAN]]
    /\ ops = << >>
    /\ hist = << >>
    /\ limit = MaxGridSteps
    /\ screen = << >>
    /\ NoMain

GridNext == Update

SpecGrid == GridInit /\ [][GridNext]_vars

\* --------------------- a grid holding one known pattern, then update()s
Rows == 0..(height - 1)

Cols == 0..(width - 1)

LiveSet(cs) == {p \in Rows \X Cols : cs[p[1]][p[2]]}

AllDead(cs) == \A r \in Rows, c \in Cols : ~cs[r][c]

BlockShape == {<<0, 0>>, <<0, 1>>, <<1, 0>>, <<1, 1>>}

\* the two phases of the glider that fit a 3x3 box, heading down-right
GliderPhases ==
    { {<<0, 1>>, <<1, 2>>, <<2, 0>>, <<2, 1>>, <<2, 2>>},
      {<<0, 0>>, <<0, 2>>, <<1, 1>>, <<1, 2>>, <<2, 1>>} }

Transform(S, fr, fc, tr) ==
    { LET p == IF tr THEN <<q[2], q[1]>> ELSE q
      IN  <<IF fr THEN 2 - p[1] ELSE p[1], IF fc THEN 2 - p[2] ELSE p[2]>>
      : q \in S }

\* the 16 gliders: 4 headings x 4 phases
GliderShapes ==
    {Transform(S, fr, fc, tr) : S \in GliderPhases, fr \in BOOLEAN,
                                fc \in BOOLEAN, tr \in BOOLEAN}

\* shape S with its box corner at (r0, c0) on a w x h torus
Place(S, r0, c0, w, h) == {<<(r0 + p[1]) % h, (c0 + p[2]) % w>> : p \in S}

GridOf(L, w, h) ==
    [r \in 0..(h - 1) |-> [c \in 0..(w - 1) |-> <<r, c>> \in L]]

\* corner positions tried along an axis of length n: the first index, the
\* middle, and the last index (where the pattern straddles the wrap)
Anchors(n) == {0, n \div 2, n - 1}

PatternDims == (2..MaxPatDim) \cup (BigDim..(BigDim + BigExtra))

\* a block on every grid, a glider on the large ones
PatternsFor(w, h) ==
    IF w >= BigDim /\ h >= BigDim THEN GliderShapes \cup {BlockShape}
    ELSE {BlockShape}

PatternInit ==
    /\ \E w \in PatternDims, h \in PatternDims :
          /\ width = w
          /\ height = h
          /\ args = <<w, h>>
          /\ \E S \in PatternsFor(w, h), r0 \in Anchors(h), c0 \in Anchors(w) :
                cells = GridOf(Place(S, r0, c0, w, h), w, h)
    /\ ops = << >>
    /\ hist = << >>
    /\ limit = MaxGliderSteps
    /\ screen = << >>
    /\ NoMain

PatternNext == Update

SpecPattern == PatternInit /\ [][PatternNext]_vars

\* ------------------------------------------------ main's event handler
\* One run of the closure passed to event_loop.run.  The event is either
\* RedrawRequested or the one for which input.update(&event) is true (the
\* end of a batch of window events); for it the record says what the input
\* helper reports: escape (Escape pressed or close requested), the keys P,
\* Space and R, a resize and whether resize_surface succeeds, and the cell
\* under a mouse click (<< >> for none).  Any other event runs no statement.
ClickCells == {<< >>, <<middle_row, middle_col>>, <<height, width>>}

InputEvents ==
    {e \in [kind : {"input"}, escape : BOOLEAN, p : BOOLEAN, space : BOOLEAN,
            r : BOOLEAN, resized : BOOLEAN, ok : BOOLEAN, click : ClickCells] :
        /\ e.escape => ~(e.p \/ e.space \/ e.r \/ e.resized) /\ e.click = << >>
        /\ ~e.resized => e.ok}

\* variant: Space handled before P
paused_after_keys_space_first(e) ==
    LET set == IF e.space THEN TRUE ELSE paused
    IN  IF e.p THEN ~set ELSE set

\* paused after lines 56-61
paused_after_keys(e) ==
    LET toggled == IF e.p THEN ~paused ELSE paused
    IN  IF e.space THEN TRUE ELSE toggled

\* variant: the step runs while paused instead of while not paused
calls_of_while_paused(e) ==
    (IF e.r THEN <<"starting_position">> ELSE << >>)
    \o (IF (e.resized /\ ~e.ok) THEN << >>
        ELSE IF paused_after_keys(e) \/ e.space THEN <<"update">> ELSE << >>)

\* variant: the step comes before the seed
calls_of_step_first(e) ==
    (IF (e.resized /\ ~e.ok) THEN << >>
     ELSE IF ~paused_after_keys(e) \/ e.space THEN <<"update">> ELSE << >>)
    \o (IF e.r THEN <<"starting_position">> ELSE << >>)

\* the calls lines 62-74 make on game, in order
calls_of(e) ==
    (IF e.r THEN <<"starting_position">> ELSE << >>)
    \o (IF (e.resized /\ ~e.ok) THEN << >>
        ELSE IF ~paused_after_keys(e) \/ e.space THEN <<"update">> ELSE << >>)

\* cs after the calls in seq, and the grids before each of them
RECURSIVE apply_calls(_, _)
apply_calls(cs, seq) ==
    IF seq = << >> THEN cs
    ELSE apply_calls(IF Head(seq) = "update" THEN update(cs)
                     ELSE starting_position(cs), Tail(seq))

RECURSIVE grids_before(_, _)
grids_before(cs, seq) ==
    IF seq = << >> THEN << >>
    ELSE <<cs>> \o grids_before(apply_calls(cs, <<Head(seq)>>), Tail(seq))

RedrawRequested ==
    /\ control_flow = "Poll"
    /\ ~panicked
    /\ Len(ops) < limit
    /\ \E ok \in BOOLEAN :
          /\ ev' = [NoEvent EXCEPT !.kind = "redraw", !.ok = ok]
          /\ control_flow' = IF ok THEN "Poll" ELSE "Exit"
    /\ panicked' = draw_panics(screen)
    /\ screen' = draw(cells, screen)
    /\ ops' = Append(ops, "draw")
    /\ hist' = Append(hist, cells)
    /\ UNCHANGED <<width, height, cells, args, limit, paused>>

InputUpdate ==
    /\ control_flow = "Poll"
    /\ ~panicked
    /\ Len(ops) < limit
    /\ \E e \in InputEvents :
          /\ ev' = e
          /\ IF e.escape
             THEN /\ control_flow' = "Exit"
                  /\ UNCHANGED <<cells, paused, ops, hist, panicked>>
             ELSE /\ paused' = paused_after_keys(e)
                  /\ control_flow' = IF e.resized /\ ~e.ok THEN "Exit" ELSE "Poll"
                  /\ panicked' = ("update" \in Range(calls_of(e))
                                    /\ update_panics(cells))
                  /\ cells' = IF panicked' THEN cells
                              ELSE apply_calls(cells, calls_of(e))
                  /\ ops' = ops \o calls_of(e)
                  /\ hist' = hist \o grids_before(cells, calls_of(e))
    /\ UNCHANGED <<width, height, args, limit, screen>>

\* variant: the grid is seeded before the loop starts
MainInit_seeded ==
    /\ width = MainWidth
    /\ height = MainHeight
    /\ args = <<MainWidth, MainHeight>>
    /\ cells = starting_position(new_cells(MainWidth, MainHeight))
    /\ screen = Buffer(MainWidth * MainHeight * 4, 0)
    /\ paused = FALSE
    /\ control_flow = "Poll"
    /\ ev = NoEvent
    /\ panicked = FALSE
    /\ ops = << >>
    /\ hist = << >>
    /\ limit = MaxMainCalls

MainInit ==
    /\ New(MainWidth, MainHeight)
    /\ screen = Buffer(MainWidth * MainHeight * 4, 0)
    /\ paused = FALSE
    /\ control_flow = "Poll"
    /\ ev = NoEvent
    /\ panicked = FALSE
    /\ ops = << >>
    /\ hist = << >>
    /\ limit = MaxMainCalls

MainNext == RedrawRequested \/ InputUpdate

SpecMain == MainInit /\ [][MainNext]_vars

\* ----------------------- new(w, h) for every w and h, zero included
NewInit ==
    /\ \E w \in 0..MaxNewDim, h \in 0..MaxNewDim :
          IF new_fails(w, h)
          THEN /\ args = <<w, h>>
               /\ width = 0 /\ height = 0 /\ cells = << >>
               /\ panicked = TRUE
          ELSE /\ New(w, h)
               /\ panicked = FALSE
    /\ ops = << >>
    /\ hist = << >>
    /\ limit = MaxNewSteps
    /\ screen = << >>
    /\ paused = FALSE
    /\ control_flow = "Poll"
    /\ ev = NoEvent

SpecNew == NewInit /\ [][Next]_vars

\* ------------------- a grid of any contents and a buffer, then draw()s
\* what the buffer holds before the first draw
DrawFills == {0, 85, 255}

DrawInit ==
    /\ \E w \in 1..MaxDrawArea, h \in 1..MaxDrawArea :
          /\ w * h <= MaxDrawArea
          /\ width = w
          /\ height = h
          /\ args = <<w, h>>
          /\ cells \in [0..(h - 1) -> [0..(w - 1) -> BOOLEAN]]
          /\ \E extra \in 0..MaxDrawExtra, b \in DrawFills :
                screen = Buffer(w * h * 4 + extra, b)
    /\ ops = << >>
    /\ hist = << >>
    /\ limit = MaxDrawSteps
    /\ NoMain

DrawNext == Draw \/ Update

SpecDraw == DrawInit /\ [][DrawNext]_vars

\* ------------- a grid of any shape and contents, then the update()s
AreaInit ==
    /\ \E w \in 1..MaxArea, h \in 1..MaxArea :
          /\ w * h <= MaxArea
          /\ width = w
          /\ height = h
          /\ args = <<w, h>>
          /\ cells \in [0..(h - 1) -> [0..(w - 1) -> BOOLEAN]]
    /\ ops = << >>
    /\ hist = << >>
    /\ limit = MaxAreaSteps
    /\ screen = << >>
    /\ NoMain

AreaNext == Update

SpecArea == AreaInit /\ [][AreaNext]_vars

\* ================================================================ claims
LastOp == ops[Len(ops)]

Prev == hist[Len(hist)]

After(op) == Len(ops) > 0 /\ LastOp = op

\* the 8 offsets around a cell
NeighbourOffsets == {d \in {-1, 0, 1} \X {-1, 0, 1} : d # <<0, 0>>}

\* number of offsets whose wrapped cell is alive in cs
LiveNeighbours(cs, r, c) ==
    Cardinality({d \in NeighbourOffsets :
                    cs[(r + d[1]) % height][(c + d[2]) % width]})

\* C1: after one update() a cell is alive iff, in the grid as it was before
\* the update, it was alive with exactly 2 or 3 live neighbours or dead with
\* exactly 3; the neighbour counts are those of the pre-step field.
C1_UpdateRule ==
    After("update") =>
        \A r \in Rows, c \in Cols :
            cells[r][c] <=>
                \/ Prev[r][c] /\ LiveNeighbours(Prev, r, c) \in {2, 3}
                \/ ~Prev[r][c] /\ LiveNeighbours(Prev, r, c) = 3

\* an update of a 3x3 grid in which one cell was born and another survived
C1_Witness ==
    /\ After("update")
    /\ width = 3 /\ height = 3
    /\ \E r \in Rows, c \in Cols : ~Prev[r][c] /\ cells[r][c]
    /\ \E r \in Rows, c \in Cols : Prev[r][c] /\ cells[r][c]

\* C2: count_neighbors(r, c) is the number of the 8 offsets (dr, dc) whose
\* cell ((r+dr) mod height, (c+dc) mod width) is alive; a live cell at (0,0)
\* is counted as a neighbour of (N-1,0), (0,M-1) and (N-1,M-1).
C2_ToroidalCount ==
    /\ \A r \in Rows, c \in Cols :
          count_neighbors(cells, r, c) = LiveNeighbours(cells, r, c)
    /\ cells[0][0] =>
          /\ count_neighbors(cells, height - 1, 0) >= 1
          /\ count_neighbors(cells, 0, width - 1) >= 1
          /\ count_neighbors(cells, height - 1, width - 1) >= 1

\* a 3x3 grid whose only live cell is (0,0), counted once from each of the
\* three cells across the edges
C2_Witness ==
    /\ width = 3 /\ height = 3
    /\ LiveSet(cells) = {<<0, 0>>}
    /\ count_neighbors(cells, 2, 0) = 1
    /\ count_neighbors(cells, 0, 2) = 1
    /\ count_neighbors(cells, 2, 2) = 1

\* the seed offsets around the centre, and the targets that are in range
SeedOffsets == {<<-1, -1>>, <<-1, 0>>, <<0, -2>>, <<0, -1>>, <<1, -1>>}

SeedTargets ==
    {p \in Rows \X Cols :
        \E d \in SeedOffsets :
            p = <<(height \div 2) + d[1], (width \div 2) + d[2]>>}

\* C3: starting_position() sets alive every in-range cell
\* (height/2 + dr, width/2 + dc) of the five offsets; an out-of-range offset
\* is skipped without wrapping, so no other cell is written.
C3_SeedTargets ==
    After("starting_position") =>
        /\ \A p \in SeedTargets : cells[p[1]][p[2]]
        /\ \A r \in Rows, c \in Cols :
              cells[r][c] # Prev[r][c] => <<r, c>> \in SeedTargets

\* seeding a 3x3 grid: offset (0,-2) is out of range, four cells are
\* written and the cell it would wrap to stays dead
C3_Witness ==
    /\ After("starting_position")
    /\ width = 3 /\ height = 3
    /\ Cardinality(SeedTargets) = 4
    /\ LiveSet(cells) = SeedTargets
    /\ ~cells[1][2]

\* C4: starting_position() clears nothing: a cell alive before the call is
\* alive after it, and a cell that is not an in-range target keeps its value.
C4_SeedKeeps ==
    After("starting_position") =>
        /\ \A r \in Rows, c \in Cols : Prev[r][c] => cells[r][c]
        /\ \A r \in Rows, c \in Cols :
              <<r, c>> \notin SeedTargets => cells[r][c] = Prev[r][c]

\* a seed on a grid that had a live cell outside the targets
C4_Witness ==
    /\ After("starting_position")
    /\ \E r \in Rows, c \in Cols :
          Prev[r][c] /\ <<r, c>> \notin SeedTargets /\ cells[r][c]

\* C5 as stated: after starting_position() the live cells are exactly the
\* in-range seed targets, whatever was alive before.
C5_ReseedClears ==
    After("starting_position") => LiveSet(cells) = SeedTargets

\* C5 amended: after starting_position() the live cells are the cells that
\* were alive before the call together with the in-range seed targets.
C5_ReseedLayers ==
    After("starting_position") =>
        LiveSet(cells) = LiveSet(Prev) \cup SeedTargets

\* a re-seed that both keeps an old live cell and revives a dead target
C5_Witness ==
    /\ After("starting_position")
    /\ Len(ops) >= 3
    /\ LiveSet(Prev) \ SeedTargets # {}
    /\ SeedTargets \ LiveSet(Prev) # {}

\* C6: an all-dead grid stays all-dead after any number of update() calls.
C6_Stillness ==
    \A i \in 1..Len(ops) :
        (AllDead(hist[i]) /\ \A j \in i..Len(ops) : ops[j] = "update")
            => AllDead(cells)

\* three updates of the grid as new built it
C6_Witness ==
    /\ Len(ops) >= 3
    /\ \A j \in 1..Len(ops) : ops[j] = "update"
    /\ AllDead(hist[1])
    /\ AllDead(cells)

\* the live cells of cs are exactly one of the n-cell shapes, placed
\* somewhere on the torus (the corner of a shape's 3x3 box lies at most two
\* rows and two columns before any of its cells)
IsPattern(cs, shapes, n) ==
    LET L == LiveSet(cs)
    IN  /\ Cardinality(L) = n
        /\ LET p == CHOOSE q \in L : TRUE
           IN  \E S \in shapes, a \in 0..2, b \in 0..2 :
                  L = Place(S, (p[1] - a) % height, (p[2] - b) % width,
                            width, height)

\* the live cells of cs are one 2x2 block
IsBlock(cs) == IsPattern(cs, {BlockShape}, 4)

\* C7 as stated: on a grid of width and height at least 2 whose only live
\* cells are a 2x2 block, one update() leaves the grid unchanged.
C7_BlockStableFrom2 ==
    (After("update") /\ width >= 2 /\ height >= 2 /\ IsBlock(Prev))
        => cells = Prev

\* C7 amended: on a grid of width and height at least 3 whose only live
\* cells are a 2x2 block, one update() leaves the grid unchanged.
C7_BlockStableFrom3 ==
    (After("update") /\ width >= 3 /\ height >= 3 /\ IsBlock(Prev))
        => cells = Prev

\* a block across the corner of a 3-wide grid, unchanged by the update
C7_Witness ==
    /\ After("update")
    /\ width = 3 /\ height >= 3
    /\ IsBlock(Prev)
    /\ Prev[0][0] /\ Prev[height - 1][2]
    /\ cells = Prev

\* cs moved by a rows and b columns on the torus
Translate(cs, a, b) ==
    [r \in Rows |-> [c \in Cols |-> cs[(r - a) % height][(c - b) % width]]]

Diagonals == {<<-1, -1>>, <<-1, 1>>, <<1, -1>>, <<1, 1>>}

IsGlider(cs) == IsPattern(cs, GliderShapes, 5)

FourUpdates == <<"update", "update", "update", "update">>

\* C8: on a grid of at least 20x20 whose only live cells are a glider,
\* after exactly 4 update() calls the live cells are the same shape moved
\* by one row and one column, and nothing else.
C8_GliderTranslation ==
    (width >= 20 /\ height >= 20 /\ ops = FourUpdates /\ IsGlider(hist[1]))
        => \E d \in Diagonals : cells = Translate(hist[1], d[1], d[2])

\* a glider that started across the corner of the grid and has moved
C8_Witness ==
    /\ width >= 20 /\ height >= 20
    /\ ops = FourUpdates
    /\ IsGlider(hist[1])
    /\ hist[1][height - 1][width - 1] /\ hist[1][0][0]
    /\ IsGlider(cells)
    /\ cells # hist[1]

SeedThenFourUpdates == <<"starting_position", "update", "update", "update", "update">>

\* C9 as stated: after starting_position() on an all-dead grid of at least
\* 20x20 and exactly 4 update() calls, the live cells are the five seeded
\* cells moved by one row and one column.
C9_SeedIsGlider ==
    (width >= 20 /\ height >= 20 /\ ops = SeedThenFourUpdates
        /\ AllDead(hist[1]))
        => \E d \in Diagonals : cells = Translate(hist[2], d[1], d[2])

\* C9 amended: the seed is five cells that are not a glider; after
\* starting_position() on an all-dead grid of at least 20x20 and exactly 4
\* update() calls there are eight live cells, and they are not the seeded
\* cells moved by one row and one column.
C9_SeedIsNotGlider ==
    (width >= 20 /\ height >= 20 /\ ops = SeedThenFourUpdates
        /\ AllDead(hist[1]))
        => /\ Cardinality(LiveSet(hist[2])) = 5
           /\ ~IsGlider(hist[2])
           /\ Cardinality(LiveSet(cells)) = 8
           /\ \A d \in Diagonals : cells # Translate(hist[2], d[1], d[2])

\* the seed on an all-dead non-square grid of at least 20x20, then four
\* updates
C9_Witness ==
    /\ width >= 20 /\ height >= 20 /\ width # height
    /\ ops = SeedThenFourUpdates
    /\ AllDead(hist[1])
    /\ LiveSet(hist[2]) = SeedTargets

\* C10: width and height keep their construction values and cells has
\* exactly height rows of exactly width booleans each.
C10_Shape ==
    /\ width = args[1]
    /\ height = args[2]
    /\ DOMAIN cells = 0..(height - 1)
    /\ \A r \in DOMAIN cells :
          /\ DOMAIN cells[r] = 0..(width - 1)
          /\ \A c \in DOMAIN cells[r] : cells[r][c] \in BOOLEAN

\* a non-square grid after both kinds of call
C10_Witness ==
    /\ width # height
    /\ \E i \in 1..Len(ops) : ops[i] = "update"
    /\ \E i \in 1..Len(ops) : ops[i] = "starting_position"
    /\ LiveSet(cells) # {}

\* the four bytes of cell (r, c) in buffer scr
Pixel(scr, r, c) ==
    LET i == (r * width + c) * 4
    IN  <<scr[i], scr[i + 1], scr[i + 2], scr[i + 3]>>

\* C11: after draw(screen) on a buffer of at least width*height*4 bytes the
\* four bytes at (r*width + c)*4 are 00 00 00 FF if cell (r,c) is alive and
\* FF FF FF FF if it is dead; the grid is unchanged (and so are the length
\* of the buffer and the bytes behind the last cell).
C11_ExportFidelity ==
    [][ops' = Append(ops, "draw") =>
          /\ ~panicked'
          /\ \A r \in Rows, c \in Cols :
                Pixel(screen', r, c) =
                    IF cells[r][c] THEN <<0, 0, 0, 255>>
                    ELSE <<255, 255, 255, 255>>
          /\ cells' = cells
          /\ DOMAIN screen' = DOMAIN screen
          /\ \A i \in DOMAIN screen :
                i >= width * height * 4 => screen'[i] = screen[i]]_vars

\* a draw of a grid with a live and a dead cell into a buffer that is
\* longer than needed and held neither colour
C11_Witness ==
    /\ After("draw")
    /\ \E r \in Rows, c \in Cols : cells[r][c] /\ Pixel(screen, r, c) = <<0, 0, 0, 255>>
    /\ \E r \in Rows, c \in Cols : ~cells[r][c] /\ Pixel(screen, r, c) = <<255, 255, 255, 255>>
    /\ Cardinality(DOMAIN screen) > width * height * 4
    /\ screen[width * height * 4] = 85

\* a grid exists: cells is the field new builds for the arguments
GridBuilt == ~panicked /\ Len(ops) = 0 /\ cells = new_cells(args[1], args[2])

\* C12: construction with a zero width or a zero height fails with a
\* configuration error instead of producing a grid.
C12_ZeroDimsRejected ==
    (Len(ops) = 0 /\ (args[1] = 0 \/ args[2] = 0))
        => (new_fails(args[1], args[2]) /\ ~GridBuilt)

\* cs with cell (r, c) flipped
Flip(cs, r, c) == [cs EXCEPT ![r][c] = ~cs[r][c]]

\* the step handled an input event that left the loop running
Handled(e) == e.kind = "input" /\ ~e.escape /\ ~(e.resized /\ ~e.ok)

\* C13: a click makes the handler call toggle_state(row, col): in bounds it
\* flips exactly that cell and leaves every other cell unchanged, out of
\* bounds it fails with an index-out-of-range failure.  (Stated for a click
\* that comes alone while the simulation is paused, so that nothing else
\* in the event touches the grid.)
C13_ClickToggles ==
    [][(Handled(ev') /\ ev'.click # << >> /\ paused
            /\ ~ev'.p /\ ~ev'.space /\ ~ev'.r)
        => IF ev'.click[1] \in Rows /\ ev'.click[2] \in Cols
           THEN cells' = Flip(cells, ev'.click[1], ev'.click[2]) /\ ~panicked'
           ELSE panicked']_vars

\* C16 as stated: while paused is true an input event in which neither
\* Space nor R is pressed leaves the grid unchanged.
C16_PausedKeepsGrid ==
    [][(ev'.kind = "input" /\ paused /\ ~ev'.space /\ ~ev'.r)
        => cells' = cells]_vars

\* C16 amended: while paused is true an input event in which none of P,
\* Space and R is pressed leaves the grid unchanged.
C16_PausedNoKeyKeepsGrid ==
    [][(ev'.kind = "input" /\ paused /\ ~ev'.p /\ ~ev'.space /\ ~ev'.r)
        => cells' = cells]_vars

\* a paused event without P, Space or R (a click or a resize) on a grid
\* that a step would have changed
C16_Witness ==
    /\ Handled(ev)
    /\ ~ev.p /\ ~ev.space /\ ~ev.r
    /\ ev.resized \/ ev.click # << >>
    /\ paused
    /\ update(cells) # cells

\* C17: every non-exiting input event in which Space is pressed ends with
\* paused = true and applies exactly one update() to the grid (after the
\* seed, if R is pressed too), whatever paused was and whether or not P is
\* pressed.
C17_SpaceSteps ==
    [][(Handled(ev') /\ ev'.space)
        => /\ paused'
           /\ cells' = update(IF ev'.r THEN starting_position(cells) ELSE cells)
           /\ ops' = ops \o (IF ev'.r THEN <<"starting_position">> ELSE << >>)
                         \o <<"update">>]_vars

\* Space and P in one event, on a grid the single step changed
C17_Witness ==
    /\ Handled(ev)
    /\ ev.space /\ ev.p /\ ~ev.r
    /\ paused
    /\ After("update")
    /\ cells # Prev

\* C18: before the first event in which R is pressed every cell is dead.
C18_NoSeedAtStartup ==
    "starting_position" \notin Range(ops) => AllDead(cells)

\* steps, a redraw and a pause without any R: the grid is still dead
C18_Witness ==
    /\ "starting_position" \notin Range(ops)
    /\ "update" \in Range(ops)
    /\ "draw" \in Range(ops)
    /\ Len(ops) >= 3
    /\ paused
    /\ AllDead(cells)

\* C19 as stated: an R event ends with update() applied to the seeded grid
\* when the simulation was not paused or Space is pressed too, and with the
\* seeded grid unstepped only when it was paused and Space is not pressed.
C19_SeedThenStepByPausedBefore ==
    [][(Handled(ev') /\ ev'.r)
        => cells' = IF ~paused \/ ev'.space
                    THEN update(starting_position(cells))
                    ELSE starting_position(cells)]_vars

\* C19 amended: the seed is applied before the step; the step follows when
\* paused is false after the event's P and Space handling or Space is
\* pressed, and the event ends with the seeded grid unstepped only when
\* paused is true after that handling and Space is not pressed.
C19_SeedThenStepByPausedAfter ==
    [][(Handled(ev') /\ ev'.r)
        => /\ cells' = IF ~paused' \/ ev'.space
                       THEN update(starting_position(cells))
                       ELSE starting_position(cells)
           /\ ops' = ops \o <<"starting_position">>
                         \o (IF ~paused' \/ ev'.space THEN <<"update">>
                             ELSE << >>)]_vars

\* R with Space: the grid is the step of the seeded grid, which differs
\* from both the seeded grid and the seed of the stepped grid
C19_Witness ==
    /\ Handled(ev)
    /\ ev.r /\ ev.space
    /\ Len(ops) >= 4
    /\ ops[Len(ops) - 1] = "starting_position"
    /\ LastOp = "update"
    /\ cells = update(Prev)
    /\ cells # Prev
    /\ cells # starting_position(update(hist[Len(hist) - 1]))

\* C14 as stated: on every grid with positive dimensions, 1 and 2 included,
\* flipping only cell (r, c) leaves count_neighbors(r, c) unchanged.
C14_SelfExcluded ==
    \A r \in Rows, c \in Cols :
        count_neighbors(Flip(cells, r, c), r, c) = count_neighbors(cells, r, c)

\* C14 amended: on every grid with width and height at least 2, flipping
\* only cell (r, c) leaves count_neighbors(r, c) unchanged.
C14_SelfExcludedFrom2 ==
    (width >= 2 /\ height >= 2) =>
        \A r \in Rows, c \in Cols :
            count_neighbors(Flip(cells, r, c), r, c)
                = count_neighbors(cells, r, c)

\* a 2x2 grid with all cells alive: (0,0) has 8 live neighbours, none of
\* them itself
C14_Witness ==
    /\ width = 2 /\ height = 2
    /\ \A r \in Rows, c \in Cols : cells[r][c]
    /\ count_neighbors(cells, 0, 0) = 8
    /\ count_neighbors(Flip(cells, 0, 0), 0, 0) = 8

\* C15: on every grid built with positive dimensions, for every cell and
\* every offset the sums row + dr + height and col + dc + width are not
\* negative and the wrapped indices are in 0..height-1 and 0..width-1, so
\* that no update() ends in an index-out-of-range failure.
C15_Total ==
    /\ ~panicked
    /\ \A r \in Rows, dr \in -1..1 :
          /\ r + dr + height >= 0
          /\ 0 <= row_neighbor(r, dr) /\ row_neighbor(r, dr) < height
          /\ row_neighbor(r, dr) \in DOMAIN cells
          /\ \A c \in Cols, dc \in -1..1 :
                /\ c + dc + width >= 0
                /\ 0 <= col_neighbor(c, dc) /\ col_neighbor(c, dc) < width
                /\ col_neighbor(c, dc) \in DOMAIN cells[row_neighbor(r, dr)]

\* an update of a one-row grid with a live cell has run to its end
C15_Witness ==
    /\ After("update")
    /\ ~panicked
    /\ height = 1 /\ width >= 3
    /\ LiveSet(Prev) # {}
    /\ LiveSet(cells) # {}

\* C20: for every grid and every shift (a, b), translating by (a, b) on the
\* torus and then stepping gives the same grid as stepping and then
\* translating by (a, b).
C20_TranslationCommutes ==
    LET stepped == update(cells)
    IN  \A a \in Rows, b \in Cols :
            update(Translate(cells, a, b)) = Translate(stepped, a, b)

\* a grid of at least 2x2 and a shift along both axes such that the shift
\* moves the grid, the step changes it, and the shift moves the stepped grid
C20_Witness ==
    /\ width >= 2 /\ height >= 2
    /\ update(cells) # cells
    /\ \E a \in Rows \ {0}, b \in Cols \ {0} :
          /\ Translate(cells, a, b) # cells
          /\ Translate(update(cells), a, b) # update(cells)
          /\ update(Translate(cells, a, b)) = Translate(update(cells), a, b)

====
